---- MODULE Spec2Model ----
(***************************************************************************)
(* The stroker of aa-stroke (src/main.rs): stroke_to_path and the geometry *)
(* it is built from, as a state machine over the ops of the input path.    *)
(*                                                                         *)
(* An f32 is modelled as a fixed-point number: the integer v stands for    *)
(* v / Unit.  Sums and differences are exact; every product, quotient and  *)
(* square root is rounded to the nearest representable value, as the       *)
(* floating-point unit rounds.                                             *)
(***************************************************************************)
EXTENDS Integers, Sequences, FiniteSets, TLC

\* ------------------------------------------------------------ bounds
\* The longest input path (number of ops) that is explored.
MaxOps == 4

\* ------------------------------------------------------------ f32
Unit == 1000

F(n) == n * Unit

\* n / d for n >= 0 and d > 0, rounded to the nearest integer, ties upward.
RoundDiv(n, d) == (2 * n + d) \div (2 * d)

\* a / b rounded to the nearest integer, ties away from zero.
RDiv(a, b) ==
    IF b > 0
    THEN (IF a >= 0 THEN RoundDiv(a, b) ELSE -RoundDiv(-a, b))
    ELSE (IF a >= 0 THEN -RoundDiv(a, -b) ELSE RoundDiv(-a, -b))

\* f32 multiplication and division
FMul(a, b) == RDiv(a * b, Unit)

FDiv(a, b) == RDiv(a * Unit, b)

\* The least integer above every square root that is computed.
SqrtCeil == 46341

RECURSIVE SqrtIter(_, _)
SqrtIter(n, x) ==
    LET y == (x + n \div x) \div 2
    IN  IF y >= x THEN x ELSE SqrtIter(n, y)

\* The integer nearest to the square root of n.
ISqrt(n) ==
    IF n = 0 THEN 0
    ELSE LET r == SqrtIter(n, IF n < SqrtCeil THEN n ELSE SqrtCeil)
         IN  IF n - r * r > r THEN r + 1 ELSE r

\* f32::sqrt
FSqrt(a) == ISqrt(a * Unit)

\* f32::hypot: the length of (x, y) without a rounded intermediate square.
Hypot(x, y) == ISqrt(x * x + y * y)

\* ------------------------------------------------------------ data model
None == << >>

Some(v) == << v >>

IsSome(o) == o # << >>

Unwrap(o) == o[1]

\* Point::new / Vector::new
Point(x, y) == [x |-> x, y |-> y]

Vector(x, y) == [x |-> x, y |-> y]

VZero == Vector(0, 0)

VAdd(a, b) == Vector(a.x + b.x, a.y + b.y)

VSub(a, b) == Vector(a.x - b.x, a.y - b.y)

VScale(v, k) == Vector(FMul(v.x, k), FMul(v.y, k))

VDivS(v, k) == Vector(FDiv(v.x, k), FDiv(v.y, k))

\* Vector2D::length
VLength(v) == FSqrt(FMul(v.x, v.x) + FMul(v.y, v.y))

Windings == {"EvenOdd", "NonZero"}

LineCaps == {"Round", "Square", "Butt"}

LineJoins == {"Round", "Miter", "Bevel"}

\* PathOp: the tag and the points it carries.
MoveTo(p) == [op |-> "MoveTo", pts |-> << p >>]

LineTo(p) == [op |-> "LineTo", pts |-> << p >>]

QuadTo(c, p) == [op |-> "QuadTo", pts |-> << c, p >>]

CubicTo(c1, c2, p) == [op |-> "CubicTo", pts |-> << c1, c2, p >>]

Close == [op |-> "Close", pts |-> << >>]

\* ------------------------------------------------------------ PathBuilder
\* A wrong constructor: the builder starts with the EvenOdd winding.
PathBuilder_new_even_odd == [ops |-> << >>, winding |-> "EvenOdd"]

PathBuilder_new == [ops |-> << >>, winding |-> "NonZero"]

\* A wrong push: the op is put in front of the ops emitted so far.
push_front(dest, o) == [dest EXCEPT !.ops = << o >> \o @]

push(dest, o) == [dest EXCEPT !.ops = Append(@, o)]

move_to(dest, x, y) == push(dest, MoveTo(Point(x, y)))

line_to(dest, x, y) == push(dest, LineTo(Point(x, y)))

cubic_to(dest, cx1, cy1, cx2, cy2, x, y) ==
    push(dest, CubicTo(Point(cx1, cy1), Point(cx2, cy2), Point(x, y)))

close(dest) == push(dest, Close)

quad(dest, x1, y1, x2, y2, x3, y3, x4, y4) ==
    close(line_to(line_to(line_to(move_to(dest, x1, y1), x2, y2), x3, y3), x4, y4))

\* A wrong tri: the triangle is left open.
tri_unclosed(dest, x1, y1, x2, y2, x3, y3) ==
    line_to(line_to(move_to(dest, x1, y1), x2, y2), x3, y3)

tri(dest, x1, y1, x2, y2, x3, y3) ==
    close(line_to(line_to(move_to(dest, x1, y1), x2, y2), x3, y3))

finish(dest) == dest

\* ------------------------------------------------------------ geometry
compute_normal(p0, p1) ==
    LET ux == p1.x - p0.x
        uy == p1.y - p0.y
        ulen == Hypot(ux, uy)
    IN  IF ulen = 0 THEN None
        ELSE Some(Vector(FDiv(-uy, ulen), FDiv(ux, ulen)))

flip(v) == Vector(-v.x, -v.y)

swap(a) == Vector(a.y, -a.x)

unperp(a) == swap(a)

perp(v) == Vector(-v.y, v.x)

dot(a, b) == FMul(a.x, b.x) + FMul(a.y, b.y)

arc_segment(path, xc, yc, radius, a, b) ==
    LET r_sin_a == FMul(radius, a.y)
        r_cos_a == FMul(radius, a.x)
        r_sin_b == FMul(radius, b.y)
        r_cos_b == FMul(radius, b.x)
        mid0 == VAdd(a, b)
        mid == VDivS(mid0, VLength(mid0))
        mid2 == VAdd(a, mid)
        h == FDiv(FMul(FDiv(F(4), F(3)), dot(perp(a), mid2)), dot(a, mid2))
    IN  cubic_to(path,
                 xc + r_cos_a - FMul(h, r_sin_a),
                 yc + r_sin_a + FMul(h, r_cos_a),
                 xc + r_cos_b + FMul(h, r_sin_b),
                 yc + r_sin_b - FMul(h, r_cos_b),
                 xc + r_cos_b,
                 yc + r_sin_b)

bisect(a, b) ==
    LET mid == IF dot(a, b) >= 0 THEN VAdd(a, b) ELSE perp(VAdd(flip(a), b))
        mid_len == FMul(mid.x, mid.x) + FMul(mid.y, mid.y)
        len == FSqrt(mid_len)
    IN  VDivS(mid, len)

\* A wrong arc: the second curve segment stops at the bisector.
arc_stops_at_bisector(path, xc, yc, radius, a, b) ==
    LET mid_v == bisect(a, b)
    IN  arc_segment(arc_segment(path, xc, yc, radius, a, mid_v),
                    xc, yc, radius, mid_v, mid_v)

arc(path, xc, yc, radius, a, b) ==
    LET mid_v == bisect(a, b)
    IN  arc_segment(arc_segment(path, xc, yc, radius, a, mid_v),
                    xc, yc, radius, mid_v, b)

arc_wedge(dest, c, radius, a, b) ==
    close(line_to(arc(move_to(dest, c.x + FMul(a.x, radius), c.y + FMul(a.y, radius)),
                      c.x, c.y, radius, a, b),
                  c.x, c.y))

cap_line(dest, style, pt, normal) ==
    LET offset == FDiv(style.width, F(2))
    IN  CASE style.cap = "Butt" -> dest
          [] style.cap = "Round" -> arc_wedge(dest, pt, offset, normal, flip(normal))
          [] style.cap = "Square" ->
                LET v == Vector(normal.y, -normal.x)
                    end == VAdd(pt, VScale(v, offset))
                IN  quad(dest,
                         pt.x + FMul(normal.x, offset), pt.y + FMul(normal.y, offset),
                         end.x + FMul(normal.x, offset), end.y + FMul(normal.y, offset),
                         end.x + FMul(-normal.x, offset), end.y + FMul(-normal.y, offset),
                         pt.x - FMul(normal.x, offset), pt.y - FMul(normal.y, offset))

bevel(dest, style, pt, s1_normal, s2_normal) ==
    LET offset == FDiv(style.width, F(2))
    IN  tri(dest,
            pt.x + FMul(s1_normal.x, offset), pt.y + FMul(s1_normal.y, offset),
            pt.x + FMul(s2_normal.x, offset), pt.y + FMul(s2_normal.y, offset),
            pt.x, pt.y)

\* A wrong line_intersection: parallel lines are said to meet at a.
line_intersection_parallel_meets(a, a_perp, b, b_perp) ==
    LET a_parallel == unperp(a_perp)
        c == VSub(b, a)
        denom == dot(b_perp, a_parallel)
        t == FDiv(dot(b_perp, c), denom)
    IN  IF denom = 0 THEN Some(a)
        ELSE Some(Point(a.x + FMul(t, a_parallel.x), a.y + FMul(t, a_parallel.y)))

line_intersection(a, a_perp, b, b_perp) ==
    LET a_parallel == unperp(a_perp)
        c == VSub(b, a)
        denom == dot(b_perp, a_parallel)
        t == FDiv(dot(b_perp, c), denom)
    IN  IF denom = 0 THEN None
        ELSE Some(Point(a.x + FMul(t, a_parallel.x), a.y + FMul(t, a_parallel.y)))

is_interior_angle(a, b) == dot(perp(a), b) > 0 \/ a = b

\* A wrong miter-limit test: a join exactly at the limit is bevelled.
miter_strictly_within_limit(style, s1_normal, s2_normal) ==
    LET in_dot_out == FMul(-s1_normal.x, s2_normal.x) + FMul(-s1_normal.y, s2_normal.y)
    IN  F(2) < FMul(FMul(style.miter_limit, style.miter_limit), F(1) - in_dot_out)

\* The miter-limit test of join_line, on the normals it is evaluated with.
miter_within_limit(style, s1_normal, s2_normal) ==
    LET in_dot_out == FMul(-s1_normal.x, s2_normal.x) + FMul(-s1_normal.y, s2_normal.y)
    IN  F(2) <= FMul(FMul(style.miter_limit, style.miter_limit), F(1) - in_dot_out)

join_line(dest, style, pt, s1_normal_in, s2_normal_in) ==
    LET interior == is_interior_angle(s1_normal_in, s2_normal_in)
        s1_normal == IF interior THEN flip(s2_normal_in) ELSE s1_normal_in
        s2_normal == IF interior THEN flip(s1_normal_in) ELSE s2_normal_in
        offset == FDiv(style.width, F(2))
    IN  CASE style.join = "Round" -> arc_wedge(dest, pt, offset, s1_normal, s2_normal)
          [] style.join = "Miter" ->
                IF miter_within_limit(style, s1_normal, s2_normal)
                THEN LET start == VAdd(pt, VScale(s1_normal, offset))
                         end == VAdd(pt, VScale(s2_normal, offset))
                         intersection == line_intersection(start, s1_normal, end, s2_normal)
                     IN  IF IsSome(intersection)
                         THEN quad(dest,
                                   pt.x + FMul(s1_normal.x, offset),
                                   pt.y + FMul(s1_normal.y, offset),
                                   Unwrap(intersection).x, Unwrap(intersection).y,
                                   pt.x + FMul(s2_normal.x, offset),
                                   pt.y + FMul(s2_normal.y, offset),
                                   pt.x, pt.y)
                         ELSE dest
                ELSE bevel(dest, style, pt, s1_normal, s2_normal)
          [] style.join = "Bevel" -> bevel(dest, style, pt, s1_normal, s2_normal)

\* ------------------------------------------------------------ inputs
\* The points input ops are drawn from.  All six distances between them
\* are whole numbers (3, 4, 5, 3, 6, 5), (-3,0) (0,0) (3,0) are collinear,
\* and (0,4) is off that line.
Points == { Point(F(0), F(0)), Point(F(3), F(0)), Point(F(0), F(4)), Point(F(-3), F(0)) }

\* The points a MoveTo of the input goes to.
MovePoints == { Point(F(3), F(0)) }

\* The curve ops that may occur in an input path.
QuadOps == { QuadTo(Point(F(0), F(4)), Point(F(3), F(0))) }

CubicOps == { CubicTo(Point(F(0), F(4)), Point(F(-3), F(0)), Point(F(3), F(0))) }

Widths == { F(-4), F(0), F(4) }

MiterLimits == { F(1), F(2), F(10) }

StrokeStyle(w, c, j, m) == [width |-> w, cap |-> c, join |-> j, miter_limit |-> m]

\* StrokeStyle::default
StrokeStyle_default == StrokeStyle(F(1), "Butt", "Miter", F(10))

\* miter_limit is read by the Miter join alone, and join_line does not read
\* the cap: the limits other than the default are explored with the Miter
\* join and the Butt cap.
Styles ==
    { StrokeStyle(w, c, j, m) : w \in Widths, c \in LineCaps, j \in LineJoins, m \in MiterLimits }
    \ { st \in [width : Widths, cap : LineCaps, join : LineJoins, miter_limit : MiterLimits] :
            /\ st.miter_limit # StrokeStyle_default.miter_limit
            /\ (st.join # "Miter" \/ st.cap # "Butt") }

\* ------------------------------------------------------------ stroke_to_path
VARIABLES
    path,          \* the input path: its winding, and the ops the loop has taken so far
    style,         \* the input style
    pc,            \* "start", "loop", "done" or "panic"
    cur_pt,        \* Option<Point>
    last_normal,   \* Vector
    start_point,   \* Option<(Point, Vector)>
    stroked_path,  \* the PathBuilder
    calls,         \* history: the builder calls made so far, with the ops each appended
    ret            \* Option<Path>: the value returned

vars == << path, style, pc, cur_pt, last_normal, start_point, stroked_path, calls, ret >>

\* The builder calls stroke_to_path makes, as values.
CapCall(pt, normal) == [call |-> "cap_line", args |-> << pt, normal >>]

JoinCall(pt, s1_normal, s2_normal) == [call |-> "join_line", args |-> << pt, s1_normal, s2_normal >>]

QuadCall(p0, p1, normal) == [call |-> "quad", args |-> << p0, p1, normal >>]

\* A wrong segment quad: the last two corners are exchanged, so the outline
\* crosses itself.
segment_quad_crossed(dest, half_width, p0, p1, normal) ==
    quad(dest,
         p0.x + FMul(normal.x, half_width), p0.y + FMul(normal.y, half_width),
         p1.x + FMul(normal.x, half_width), p1.y + FMul(normal.y, half_width),
         p0.x - FMul(normal.x, half_width), p0.y - FMul(normal.y, half_width),
         p1.x + FMul(-normal.x, half_width), p1.y + FMul(-normal.y, half_width))

\* stroked_path.quad(..) for the segment p0 -> p1 with normal `normal`.
segment_quad(dest, half_width, p0, p1, normal) ==
    quad(dest,
         p0.x + FMul(normal.x, half_width), p0.y + FMul(normal.y, half_width),
         p1.x + FMul(normal.x, half_width), p1.y + FMul(normal.y, half_width),
         p1.x + FMul(-normal.x, half_width), p1.y + FMul(-normal.y, half_width),
         p0.x - FMul(normal.x, half_width), p0.y - FMul(normal.y, half_width))

half_width_of(st) == FDiv(st.width, F(2))

\* One builder call carried out on dest.
Emit(dest, st, c) ==
    CASE c.call = "cap_line" -> cap_line(dest, st, c.args[1], c.args[2])
      [] c.call = "join_line" -> join_line(dest, st, c.args[1], c.args[2], c.args[3])
      [] c.call = "quad" -> segment_quad(dest, half_width_of(st), c.args[1], c.args[2], c.args[3])

\* The builder b = [dest, calls] after the call c: dest after it, and the
\* history with c and the ops it appended.
Record(b, st, c) ==
    LET d == Emit(b.dest, st, c)
    IN  [dest |-> d,
         calls |-> Append(b.calls, [call |-> c.call, args |-> c.args,
                                    ops |-> SubSeq(d.ops, Len(b.dest.ops) + 1, Len(d.ops))])]

RECURSIVE EmitAll(_, _, _)
EmitAll(b, st, cs) ==
    IF cs = << >> THEN b ELSE EmitAll(Record(b, st, Head(cs)), st, Tail(cs))

\* The stroker's loop state, as one value; b is the builder with its history.
StrokerState(c, n, s, b) ==
    [cur_pt |-> c, last_normal |-> n, start_point |-> s, stroked_path |-> b.dest, calls |-> b.calls]

Builder(s) == [dest |-> s.stroked_path, calls |-> s.calls]

StartPoint(p, n) == [point |-> p, normal |-> n]

\* A wrong MoveTo arm: the start of the open subpath is capped before its end.
MoveTo_calls_start_first(s, pt) ==
    IF IsSome(s.cur_pt) /\ IsSome(s.start_point)
    THEN << CapCall(Unwrap(s.start_point).point, flip(Unwrap(s.start_point).normal)),
            CapCall(Unwrap(s.cur_pt), s.last_normal) >>
    ELSE << >>

\* PathOp::MoveTo(pt): the calls made, then the state left.
MoveTo_calls(s, pt) ==
    IF IsSome(s.cur_pt) /\ IsSome(s.start_point)
    THEN << CapCall(Unwrap(s.cur_pt), s.last_normal),
            CapCall(Unwrap(s.start_point).point, flip(Unwrap(s.start_point).normal)) >>
    ELSE << >>

\* A wrong MoveTo arm: start_point is kept from the subpath before.
on_MoveTo_keeps_start(s, st, pt) ==
    StrokerState(Some(pt), s.last_normal, s.start_point,
                 EmitAll(Builder(s), st, MoveTo_calls(s, pt)))

on_MoveTo(s, st, pt) ==
    StrokerState(Some(pt), s.last_normal, None, EmitAll(Builder(s), st, MoveTo_calls(s, pt)))

\* A wrong LineTo arm: the segment's quad is emitted before the join.
LineTo_calls_quad_first(s, pt) ==
    IF ~IsSome(s.cur_pt) THEN << >>
    ELSE LET cur == Unwrap(s.cur_pt)
             normal == compute_normal(cur, pt)
         IN  IF ~IsSome(normal) THEN << >>
             ELSE << QuadCall(cur, pt, Unwrap(normal)) >>
                  \o (IF ~IsSome(s.start_point) THEN << >>
                      ELSE << JoinCall(cur, s.last_normal, Unwrap(normal)) >>)

\* PathOp::LineTo(pt)
LineTo_calls(s, pt) ==
    IF ~IsSome(s.cur_pt) THEN << >>
    ELSE LET cur == Unwrap(s.cur_pt)
             normal == compute_normal(cur, pt)
         IN  IF ~IsSome(normal) THEN << >>
             ELSE (IF ~IsSome(s.start_point) THEN << >>
                   ELSE << JoinCall(cur, s.last_normal, Unwrap(normal)) >>)
                  \o << QuadCall(cur, pt, Unwrap(normal)) >>

\* A wrong LineTo arm: without a current point the op is dropped, and the
\* target does not become the current point.
on_LineTo_dropped_without_point(s, st, pt) ==
    LET normal == IF IsSome(s.cur_pt) THEN compute_normal(Unwrap(s.cur_pt), pt) ELSE None
    IN  StrokerState(
            IF IsSome(s.cur_pt) THEN Some(pt) ELSE None,
            IF IsSome(normal) THEN Unwrap(normal) ELSE s.last_normal,
            IF ~IsSome(s.cur_pt) THEN None
            ELSE IF IsSome(normal) /\ ~IsSome(s.start_point)
                 THEN Some(StartPoint(Unwrap(s.cur_pt), Unwrap(normal)))
                 ELSE s.start_point,
            EmitAll(Builder(s), st, LineTo_calls(s, pt)))

\* A wrong LineTo arm: a zero-length segment resets last_normal.
on_LineTo_resets_normal(s, st, pt) ==
    LET normal == IF IsSome(s.cur_pt) THEN compute_normal(Unwrap(s.cur_pt), pt) ELSE None
    IN  StrokerState(
            Some(pt),
            IF IsSome(normal) THEN Unwrap(normal) ELSE VZero,
            IF ~IsSome(s.cur_pt) THEN None
            ELSE IF IsSome(normal) /\ ~IsSome(s.start_point)
                 THEN Some(StartPoint(Unwrap(s.cur_pt), Unwrap(normal)))
                 ELSE s.start_point,
            EmitAll(Builder(s), st, LineTo_calls(s, pt)))

on_LineTo(s, st, pt) ==
    LET normal == IF IsSome(s.cur_pt) THEN compute_normal(Unwrap(s.cur_pt), pt) ELSE None
    IN  StrokerState(
            Some(pt),
            IF IsSome(normal) THEN Unwrap(normal) ELSE s.last_normal,
            IF ~IsSome(s.cur_pt) THEN None
            ELSE IF IsSome(normal) /\ ~IsSome(s.start_point)
                 THEN Some(StartPoint(Unwrap(s.cur_pt), Unwrap(normal)))
                 ELSE s.start_point,
            EmitAll(Builder(s), st, LineTo_calls(s, pt)))

\* A wrong Close arm: the join at the seam (the start point) is left out.
Close_calls_no_seam_join(s) ==
    IF IsSome(s.cur_pt) /\ IsSome(s.start_point)
    THEN LET cur == Unwrap(s.cur_pt)
             end_point == Unwrap(s.start_point).point
             normal == compute_normal(cur, end_point)
         IN  IF IsSome(normal)
             THEN << JoinCall(cur, s.last_normal, Unwrap(normal)),
                     QuadCall(cur, end_point, Unwrap(normal)) >>
             ELSE << >>
    ELSE << >>

\* A wrong Close arm: the closing quad is emitted before the join at cur_pt.
Close_calls_quad_first(s) ==
    IF IsSome(s.cur_pt) /\ IsSome(s.start_point)
    THEN LET cur == Unwrap(s.cur_pt)
             end_point == Unwrap(s.start_point).point
             start_normal == Unwrap(s.start_point).normal
             normal == compute_normal(cur, end_point)
         IN  IF IsSome(normal)
             THEN << QuadCall(cur, end_point, Unwrap(normal)),
                     JoinCall(cur, s.last_normal, Unwrap(normal)),
                     JoinCall(end_point, Unwrap(normal), start_normal) >>
             ELSE << JoinCall(end_point, s.last_normal, start_normal) >>
    ELSE << >>

\* PathOp::Close
Close_calls(s) ==
    IF IsSome(s.cur_pt) /\ IsSome(s.start_point)
    THEN LET cur == Unwrap(s.cur_pt)
             end_point == Unwrap(s.start_point).point
             start_normal == Unwrap(s.start_point).normal
             normal == compute_normal(cur, end_point)
         IN  IF IsSome(normal)
             THEN << JoinCall(cur, s.last_normal, Unwrap(normal)),
                     QuadCall(cur, end_point, Unwrap(normal)),
                     JoinCall(end_point, Unwrap(normal), start_normal) >>
             ELSE << JoinCall(end_point, s.last_normal, start_normal) >>
    ELSE << >>

on_Close(s, st) ==
    StrokerState(
        IF IsSome(s.start_point) THEN Some(Unwrap(s.start_point).point) ELSE None,
        s.last_normal,
        None,
        EmitAll(Builder(s), st, Close_calls(s)))

\* A wrong end of input: a subpath that is a lone point is capped as well.
Finish_calls_caps_lone_point(s) ==
    IF IsSome(s.cur_pt) /\ IsSome(s.start_point)
    THEN << CapCall(Unwrap(s.cur_pt), s.last_normal),
            CapCall(Unwrap(s.start_point).point, flip(Unwrap(s.start_point).normal)) >>
    ELSE IF IsSome(s.cur_pt)
    THEN << CapCall(Unwrap(s.cur_pt), Vector(Unit, 0)),
            CapCall(Unwrap(s.cur_pt), Vector(-Unit, 0)) >>
    ELSE << >>

\* After the loop: the caps of a subpath left open.
Finish_calls(s) ==
    IF IsSome(s.cur_pt) /\ IsSome(s.start_point)
    THEN << CapCall(Unwrap(s.cur_pt), s.last_normal),
            CapCall(Unwrap(s.start_point).point, flip(Unwrap(s.start_point).normal)) >>
    ELSE << >>

on_Finish(s, st) ==
    StrokerState(s.cur_pt, s.last_normal, s.start_point,
                 EmitAll(Builder(s), st, Finish_calls(s)))

\* The loop state the variables hold.
Cur == StrokerState(cur_pt, last_normal, start_point, [dest |-> stroked_path, calls |-> calls])

Init ==
    /\ path \in [ops : { << >> }, winding : Windings]
    /\ style \in Styles
    /\ pc = "start"
    /\ cur_pt = None
    /\ last_normal = VZero
    /\ start_point = None
    /\ stroked_path = PathBuilder_new
    /\ calls = << >>
    /\ ret = None

\* A wrong width test: a zero width is stroked.
degenerate_width_negative_only(st) == st.width < 0

\* if style.width <= 0.
degenerate_width(st) == st.width <= 0

\* let mut stroked_path = PathBuilder::new(); if style.width <= 0. { return .. }
EarlyReturn ==
    /\ pc = "start"
    /\ degenerate_width(style)
    /\ pc' = "done"
    /\ ret' = Some(finish(stroked_path))
    /\ UNCHANGED << path, style, cur_pt, last_normal, start_point, stroked_path, calls >>

EnterLoop ==
    /\ pc = "start"
    /\ ~degenerate_width(style)
    /\ pc' = "loop"
    /\ UNCHANGED << path, style, cur_pt, last_normal, start_point, stroked_path, calls, ret >>

\* The loop takes the next op of the input, o, and leaves the state n.
Take(o, n) ==
    /\ path' = [path EXCEPT !.ops = Append(@, o)]
    /\ cur_pt' = n.cur_pt
    /\ last_normal' = n.last_normal
    /\ start_point' = n.start_point
    /\ stroked_path' = n.stroked_path
    /\ calls' = n.calls
    /\ UNCHANGED << style, pc, ret >>

StepMoveTo ==
    /\ pc = "loop"
    /\ Len(path.ops) < MaxOps
    /\ \E pt \in MovePoints : Take(MoveTo(pt), on_MoveTo(Cur, style, pt))

StepLineTo ==
    /\ pc = "loop"
    /\ Len(path.ops) < MaxOps
    /\ \E pt \in Points : Take(LineTo(pt), on_LineTo(Cur, style, pt))

StepClose ==
    /\ pc = "loop"
    /\ Len(path.ops) < MaxOps
    /\ Take(Close, on_Close(Cur, style))

\* A wrong QuadTo arm: the op is skipped and the loop goes on.
StepQuadTo_skipped ==
    /\ pc = "loop"
    /\ Len(path.ops) < MaxOps
    /\ \E o \in QuadOps : path' = [path EXCEPT !.ops = Append(@, o)]
    /\ UNCHANGED << style, pc, cur_pt, last_normal, start_point, stroked_path, calls, ret >>

\* PathOp::QuadTo(..) => panic!("Only flat paths handled")
StepQuadTo ==
    /\ pc = "loop"
    /\ Len(path.ops) < MaxOps
    /\ \E o \in QuadOps : path' = [path EXCEPT !.ops = Append(@, o)]
    /\ pc' = "panic"
    /\ UNCHANGED << style, cur_pt, last_normal, start_point, stroked_path, calls, ret >>

\* PathOp::CubicTo(..) => panic!("Only flat paths handled")
StepCubicTo ==
    /\ pc = "loop"
    /\ Len(path.ops) < MaxOps
    /\ \E o \in CubicOps : path' = [path EXCEPT !.ops = Append(@, o)]
    /\ pc' = "panic"
    /\ UNCHANGED << style, cur_pt, last_normal, start_point, stroked_path, calls, ret >>

\* The input has no further op: the closing caps, and the return.
Finish ==
    /\ pc = "loop"
    /\ LET n == on_Finish(Cur, style)
       IN  /\ stroked_path' = n.stroked_path
           /\ ret' = Some(finish(n.stroked_path))
           /\ calls' = n.calls
    /\ pc' = "done"
    /\ UNCHANGED << path, style, cur_pt, last_normal, start_point >>

Next ==
    \/ EarlyReturn
    \/ EnterLoop
    \/ StepMoveTo
    \/ StepLineTo
    \/ StepClose
    \/ StepQuadTo
    \/ StepCubicTo
    \/ Finish

Spec == Init /\ [][Next]_vars

\* ------------------------------------------------------------ the pass as a function
\* The loop state before the first op.
InitState ==
    StrokerState(None, VZero, None, [dest |-> PathBuilder_new, calls |-> << >>])

\* match *op, for the ops of a flat path.
Step(s, st, o) ==
    CASE o.op = "MoveTo" -> on_MoveTo(s, st, o.pts[1])
      [] o.op = "LineTo" -> on_LineTo(s, st, o.pts[1])
      [] o.op = "Close" -> on_Close(s, st)

\* for op in &path.ops, from the loop state s.
RECURSIVE Run(_, _, _)
Run(s, st, ops) ==
    IF ops = << >> THEN s ELSE Run(Step(s, st, Head(ops)), st, Tail(ops))

\* stroke_to_path(p, st) ends in panic!("Only flat paths handled").
panics(p, st) ==
    /\ ~degenerate_width(st)
    /\ \E k \in 1..Len(p.ops) : p.ops[k].op \in {"QuadTo", "CubicTo"}

\* stroke_to_path(p, st): Some(the path returned), or None when it panics.
stroke_to_path(p, st) ==
    IF degenerate_width(st) THEN Some(finish(PathBuilder_new))
    ELSE IF panics(p, st) THEN None
    ELSE Some(finish(on_Finish(Run(InitState, st, p.ops), st).stroked_path))

\* ------------------------------------------------------------ claims
IsCurve(o) == o.op \in {"QuadTo", "CubicTo"}

HasCurve(ops) == \E k \in 1..Len(ops) : IsCurve(ops[k])

EmptyPath == [ops |-> << >>, winding |-> "NonZero"]

\* C1: with width <= 0 stroke_to_path returns a path with zero ops, whatever
\* the input: the width is tested first, so no op of the input is taken, no
\* builder call is made, and the panic of the curve arms is never reached.
C1_DegenerateWidthReturnsEmpty ==
    style.width <= 0 =>
        /\ pc \in {"start", "done"}
        /\ path.ops = << >>
        /\ calls = << >>
        /\ stroked_path.ops = << >>
        /\ pc = "done" => (IsSome(ret) /\ Unwrap(ret).ops = << >>)
        /\ pc = "start" => ret = None

C1_Witness == pc = "done" /\ style.width <= 0 /\ IsSome(ret) /\ path.winding = "EvenOdd"

\* C2: with width > 0 an input with a QuadTo or CubicTo ends in the panic at
\* its first curve op: that op is the last one taken, nothing is returned,
\* and no state of the loop or of the return has a curve op behind it.
C2_CurveOpPanics ==
    /\ HasCurve(path.ops) =>
          /\ pc = "panic"
          /\ style.width > 0
          /\ ret = None
          /\ \A k \in 1..Len(path.ops) : IsCurve(path.ops[k]) <=> k = Len(path.ops)
    /\ pc = "panic" => HasCurve(path.ops)

C2_Witness ==
    /\ pc = "panic"
    /\ Len(path.ops) = 3
    /\ path.ops[3].op = "CubicTo"
    /\ stroked_path.ops # << >>

\* The op the step just made took from the input, when it took one.
TakesOp == pc = "loop" /\ Len(path'.ops) = Len(path.ops) + 1

TakenOp == path'.ops[Len(path'.ops)]

\* The first point of the subpath that the ops lead to, as the command
\* stream defines it: a MoveTo starts a subpath at its point, a LineTo with
\* no subpath behind it starts one at its point, and a Close returns to the
\* start of the subpath it closes.
RECURSIVE SubpathStart(_)
SubpathStart(ops) ==
    IF ops = << >> THEN None
    ELSE LET before == SubpathStart(SubSeq(ops, 1, Len(ops) - 1))
             o == ops[Len(ops)]
         IN  CASE o.op = "MoveTo" -> Some(o.pts[1])
               [] o.op = "LineTo" -> IF IsSome(before) THEN before ELSE Some(o.pts[1])
               [] OTHER -> before

\* C3: a Close taken while there is a current point leaves cur_pt at the
\* first point of the subpath it closes, and start_point at None.
C3_CloseReturnsToSubpathStart ==
    [][ (TakesOp /\ TakenOp = Close /\ IsSome(cur_pt))
            => (cur_pt' = SubpathStart(path.ops) /\ start_point' = None) ]_vars

\* The step that ends the loop at the end of the input.
EndsInput == pc = "loop" /\ pc' = "done"

\* The builder calls the step made.
NewCalls == SubSeq(calls', Len(calls) + 1, Len(calls'))

CallsOf(cs) == [k \in 1..Len(cs) |-> [call |-> cs[k].call, args |-> cs[k].args]]

\* C4: a MoveTo or the end of the input, met with an open subpath that has
\* a stroked segment (cur_pt and start_point both set), makes exactly two
\* cap calls: the end cap at cur_pt with last_normal, then the start cap at
\* the recorded start point with the flipped start normal; met with no such
\* subpath it makes no call.  A MoveTo and a Close leave start_point unset, so
\* no later step caps the same subpath again, and a LineTo and a Close make
\* no cap call.
C4_OpenSubpathGetsTwoCaps ==
    [][ /\ ((TakesOp /\ TakenOp.op = "MoveTo") \/ EndsInput) =>
              /\ CallsOf(NewCalls) =
                    IF IsSome(cur_pt) /\ IsSome(start_point)
                    THEN << CapCall(Unwrap(cur_pt), last_normal),
                            CapCall(Unwrap(start_point).point,
                                    flip(Unwrap(start_point).normal)) >>
                    ELSE << >>
              /\ \A k \in 1..Len(NewCalls) :
                    (NewCalls[k].ops = << >>) <=> (style.cap = "Butt")
        /\ (TakesOp /\ TakenOp.op \in {"MoveTo", "Close"}) => start_point' = None
        /\ (TakesOp /\ TakenOp.op \in {"LineTo", "Close"}) =>
              \A k \in 1..Len(NewCalls) : NewCalls[k].call # "cap_line"
        /\ SubSeq(calls', 1, Len(calls)) = calls
      ]_vars

\* One open subpath was capped by a MoveTo, and a second one by the end of
\* the input.
C4_Witness ==
    /\ pc = "done"
    /\ style.cap = "Square"
    /\ Len(path.ops) = 4
    /\ path.ops[1].op = "MoveTo" /\ path.ops[2].op = "LineTo"
    /\ path.ops[3].op = "MoveTo" /\ path.ops[4].op = "LineTo"
    /\ [k \in 1..Len(calls) |-> calls[k].call]
          = << "quad", "cap_line", "cap_line", "quad", "cap_line", "cap_line" >>

\* The shapes of the closed pieces the builder's helpers append.
OpTags(ops) == [k \in 1..Len(ops) |-> ops[k].op]

IsQuadPiece(ops) == OpTags(ops) = << "MoveTo", "LineTo", "LineTo", "LineTo", "Close" >>

IsTriPiece(ops) == OpTags(ops) = << "MoveTo", "LineTo", "LineTo", "Close" >>

IsWedgePiece(ops) == OpTags(ops) = << "MoveTo", "CubicTo", "CubicTo", "LineTo", "Close" >>

IsOnePiece(ops) == IsQuadPiece(ops) \/ IsTriPiece(ops) \/ IsWedgePiece(ops)

RECURSIVE ConcatOps(_)
ConcatOps(cs) == IF cs = << >> THEN << >> ELSE Head(cs).ops \o ConcatOps(Tail(cs))

\* MoveTo(A), LineTo(B), LineTo(C), Close with A, B, C pairwise distinct.
IsClosedTriangle(ops) ==
    /\ OpTags(ops) = << "MoveTo", "LineTo", "LineTo", "Close" >>
    /\ ops[1].pts[1] # ops[2].pts[1]
    /\ ops[2].pts[1] # ops[3].pts[1]
    /\ ops[1].pts[1] # ops[3].pts[1]

\* The calls of a stroked closed triangle: the quad of A -> B, the join at B,
\* the quad of B -> C, the join at C, the quad of C -> A, the join at A, each
\* join between the normals of the two quads that meet there; no cap.
TriangleCalls(ops, cs) ==
    LET A == ops[1].pts[1]
        B == ops[2].pts[1]
        C == ops[3].pts[1]
    IN  /\ Len(cs) = 6
        /\ \A k \in {1, 3, 5} : cs[k].call = "quad" /\ IsQuadPiece(cs[k].ops)
        /\ << cs[1].args[1], cs[1].args[2] >> = << A, B >>
        /\ << cs[3].args[1], cs[3].args[2] >> = << B, C >>
        /\ << cs[5].args[1], cs[5].args[2] >> = << C, A >>
        /\ \A k \in {2, 4, 6} : cs[k].call = "join_line"
        /\ cs[2].args = << B, cs[1].args[3], cs[3].args[3] >>
        /\ cs[4].args = << C, cs[3].args[3], cs[5].args[3] >>
        /\ cs[6].args = << A, cs[5].args[3], cs[1].args[3] >>

\* A join between two segments of the same direction, under a Miter join
\* that passes the miter-limit test: the offset lines are parallel.
ParallelMiter(st, c) ==
    /\ st.join = "Miter"
    /\ c.args[2] = c.args[3]
    /\ FMul(st.miter_limit, st.miter_limit) >= F(1)

\* C5 as claimed: a closed triangle yields 3 quads, 3 join pieces, no cap.
C5_TriangleThreeJoinPieces ==
    (pc = "done" /\ IsClosedTriangle(path.ops)) =>
        /\ TriangleCalls(path.ops, calls)
        /\ \A k \in {2, 4, 6} : IsOnePiece(calls[k].ops)
        /\ stroked_path.ops = ConcatOps(calls)

\* C5, amended: a closed triangle yields 3 quads, 3 join calls (at B, C and
\* A) and no cap; each join appends exactly one closed piece, except a Miter
\* join within the miter limit between two segments of the same direction,
\* which appends nothing.
C5_TriangleThreeJoins ==
    (pc = "done" /\ IsClosedTriangle(path.ops)) =>
        /\ TriangleCalls(path.ops, calls)
        /\ \A k \in {2, 4, 6} :
              IF ParallelMiter(style, calls[k])
              THEN calls[k].ops = << >>
              ELSE IsOnePiece(calls[k].ops)
        /\ stroked_path.ops = ConcatOps(calls)

\* A closed triangle one of whose joins is a parallel Miter join that
\* appended nothing, while the other two joins appended a triangle each.
C5_Witness ==
    /\ pc = "done"
    /\ IsClosedTriangle(path.ops)
    /\ Len(calls) = 6
    /\ \E k \in {2, 4, 6} :
          /\ ParallelMiter(style, calls[k]) /\ calls[k].ops = << >>
          /\ \A j \in {2, 4, 6} \ {k} : IsTriPiece(calls[j].ops)

\* MoveTo(p), LineTo(q) with p # q, and nothing else.
IsSingleSegment(ops) ==
    /\ OpTags(ops) = << "MoveTo", "LineTo" >>
    /\ ops[1].pts[1] # ops[2].pts[1]

\* n is a unit vector perpendicular to p -> q (in fixed point, exactly).
IsUnitNormalOf(n, p, q) ==
    /\ n.x * (q.x - p.x) + n.y * (q.y - p.y) = 0
    /\ n.x * n.x + n.y * n.y = Unit * Unit

\* c + v * h, with the product taken exactly.
OffsetBy(c, v, h) == Point(c.x + (v.x * h) \div Unit, c.y + (v.y * h) \div Unit)

\* The offset quad over p + n*h, q + n*h, q - n*h, p - n*h.
OffsetQuad(p, q, n, h) ==
    << MoveTo(OffsetBy(p, n, h)), LineTo(OffsetBy(q, n, h)),
       LineTo(OffsetBy(q, n, -h)), LineTo(OffsetBy(p, n, -h)), Close >>

\* w is one wedge over the half circle of radius h around c that starts at
\* c + a*h and ends at c - a*h: two cubic arcs meeting on the circle, then a
\* line to the centre.
IsHalfCircleWedge(w, c, a, h) ==
    /\ IsWedgePiece(w)
    /\ w[1].pts[1] = OffsetBy(c, a, h)
    /\ Hypot(w[2].pts[3].x - c.x, w[2].pts[3].y - c.y) = h
    /\ a.x * (w[2].pts[3].x - c.x) + a.y * (w[2].pts[3].y - c.y) = 0
    /\ w[3].pts[3] = OffsetBy(c, a, -h)
    /\ w[4].pts[1] = c

\* C6: a single open segment p -> q stroked with a Butt cap returns exactly
\* the offset quad over p + n*h, q + n*h, q - n*h, p - n*h (n the unit normal
\* of the segment, h half the width); with a Round cap it returns that quad,
\* then a half-circle wedge at q, then one at p, and nothing else.
C6_SingleSegmentPieces ==
    (pc = "done" /\ IsSingleSegment(path.ops)) =>
        LET p == path.ops[1].pts[1]
            q == path.ops[2].pts[1]
            n == last_normal
            h == style.width \div 2
            out == Unwrap(ret).ops
        IN  /\ IsSome(ret)
            /\ IsUnitNormalOf(n, p, q)
            /\ style.cap = "Butt" => out = OffsetQuad(p, q, n, h)
            /\ style.cap = "Round" =>
                  /\ Len(out) = 15
                  /\ SubSeq(out, 1, 5) = OffsetQuad(p, q, n, h)
                  /\ IsHalfCircleWedge(SubSeq(out, 6, 10), q, n, h)
                  /\ IsHalfCircleWedge(SubSeq(out, 11, 15), p, flip(n), h)

\* A slanted single segment returned with its quad and two round caps.
C6_Witness ==
    /\ pc = "done"
    /\ path.ops = << MoveTo(Point(F(3), F(0))), LineTo(Point(F(0), F(4))) >>
    /\ style.cap = "Round"
    /\ IsSome(ret) /\ Len(Unwrap(ret).ops) = 15

\* The stroker's current point and the point of its recorded start after the
\* ops of a flat path, by the points of the ops alone.
RECURSIVE Track(_)
Track(ops) ==
    IF ops = << >> THEN [cur |-> None, start |-> None]
    ELSE LET b == Track(SubSeq(ops, 1, Len(ops) - 1))
             o == ops[Len(ops)]
         IN  CASE o.op = "MoveTo" -> [cur |-> Some(o.pts[1]), start |-> None]
               [] o.op = "LineTo" ->
                     [cur |-> Some(o.pts[1]),
                      start |-> IF b.cur = None THEN None
                                ELSE IF b.start = None /\ b.cur # Some(o.pts[1]) THEN b.cur
                                ELSE b.start]
               [] o.op = "Close" -> [cur |-> b.start, start |-> None]
               [] OTHER -> b

\* ops[k] is a LineTo to the point that is current when it is processed.
IsZeroLengthAt(ops, k) ==
    /\ ops[k].op = "LineTo"
    /\ Track(SubSeq(ops, 1, k - 1)).cur = Some(ops[k].pts[1])

\* ops without its zero-length LineTo ops.
RECURSIVE WithoutZeroLength(_)
WithoutZeroLength(ops) ==
    IF ops = << >> THEN << >>
    ELSE WithoutZeroLength(SubSeq(ops, 1, Len(ops) - 1))
         \o (IF IsZeroLengthAt(ops, Len(ops)) THEN << >> ELSE << ops[Len(ops)] >>)

\* C7: a LineTo(p) processed while cur_pt = p appends nothing to the output,
\* makes no builder call, leaves last_normal, start_point and cur_pt as they
\* are and lets the loop go on; and the path returned at the end is the
\* path returned for the input without its zero-length LineTo ops.
C7_ZeroLengthLineToIsNoOp ==
    [][ /\ (TakesOp /\ TakenOp.op = "LineTo" /\ cur_pt = Some(TakenOp.pts[1])) =>
              /\ IsZeroLengthAt(path'.ops, Len(path'.ops))
              /\ stroked_path' = stroked_path
              /\ calls' = calls
              /\ last_normal' = last_normal
              /\ start_point' = start_point
              /\ cur_pt' = cur_pt
              /\ pc' = "loop"
        /\ pc = "loop" => Track(path.ops).cur = cur_pt
        /\ (EndsInput /\ WithoutZeroLength(path.ops) # path.ops) =>
              ret' = stroke_to_path([path EXCEPT !.ops = WithoutZeroLength(@)], style)
      ]_vars

\* A path returned whose second segment is a zero-length LineTo between two
\* stroked segments that are joined.
C7_Witness ==
    /\ pc = "done"
    /\ Len(path.ops) = 4
    /\ path.ops[1].op = "MoveTo"
    /\ path.ops[2].op = "LineTo" /\ path.ops[2].pts # path.ops[1].pts
    /\ path.ops[3] = path.ops[2]
    /\ path.ops[4].op = "LineTo" /\ path.ops[4] # path.ops[3]
    /\ [k \in 1..Len(calls) |-> calls[k].call]
          = << "quad", "join_line", "quad", "cap_line", "cap_line" >>
    /\ style.join = "Round"

\* miter_limit^2 * (1 - in_dot_out) >= 2 with in_dot_out = -dot(n1, n2).
MiterTest(limit, n1, n2) ==
    LET in_dot_out == -dot(n1, n2)
    IN  FMul(FMul(limit, limit), F(1) - in_dot_out) >= F(2)

Abs(i) == IF i < 0 THEN -i ELSE i

\* x lies on the line through o whose normal is n, up to the rounding of x.
OnOffsetLine(x, o, n) == Abs((x.x - o.x) * n.x + (x.y - o.y) * n.y) <= 2 * Unit

\* The bevel triangle (offset1, offset2, vertex) for the normals a, b.
BevelTriangle(pt, a, b, h) ==
    << MoveTo(OffsetBy(pt, a, h)), LineTo(OffsetBy(pt, b, h)), LineTo(pt), Close >>

\* ops is the miter quad offset1 - intersection - offset2 - vertex for the
\* normals a, b: its second corner lies on both offset lines.
IsMiterQuad(ops, pt, a, b, h) ==
    /\ IsQuadPiece(ops)
    /\ ops[1].pts[1] = OffsetBy(pt, a, h)
    /\ OnOffsetLine(ops[2].pts[1], OffsetBy(pt, a, h), a)
    /\ OnOffsetLine(ops[2].pts[1], OffsetBy(pt, b, h), b)
    /\ ops[3].pts[1] = OffsetBy(pt, b, h)
    /\ ops[4].pts[1] = pt

\* The two pairs of normals a join may be built on: the ones join_line is
\* called with, or, after the interior-angle step, flipped and swapped.
NormalPairs(n1, n2) == { << n1, n2 >>, << flip(n2), flip(n1) >> }

\* C8: under a Miter join, a join_line call with the normals n1, n2 takes
\* the miter branch iff miter_limit^2 * (1 - in_dot_out) >= 2, in_dot_out
\* being -dot(n1, n2) of the normals as passed in: it then appends the quad
\* offset1 - intersection - offset2 - vertex (nothing when the offset lines
\* are parallel); otherwise it appends exactly the bevel triangle.  The
\* choice is the same for the normals as passed and flipped and swapped.
C8_MiterBranchIffWithinLimit ==
    \A k \in 1..Len(calls) :
        (calls[k].call = "join_line" /\ style.join = "Miter") =>
            LET pt == calls[k].args[1]
                n1 == calls[k].args[2]
                n2 == calls[k].args[3]
                h == style.width \div 2
                ops == calls[k].ops
            IN  /\ MiterTest(style.miter_limit, n1, n2)
                      = MiterTest(style.miter_limit, flip(n2), flip(n1))
                /\ IF MiterTest(style.miter_limit, n1, n2)
                   THEN IF dot(perp(n1), n2) = 0
                        THEN ops = << >>
                        ELSE \E ab \in NormalPairs(n1, n2) : IsMiterQuad(ops, pt, ab[1], ab[2], h)
                   ELSE \E ab \in NormalPairs(n1, n2) : ops = BevelTriangle(pt, ab[1], ab[2], h)

\* Under miter limit 2, one path with a join within the limit that was
\* flipped and swapped and got its miter quad, and a join over the limit that
\* got the bevel triangle.
C8_Witness ==
    /\ style.join = "Miter" /\ style.miter_limit = F(2)
    /\ \E j \in 1..Len(calls), k \in 1..Len(calls) :
          /\ calls[j].call = "join_line"
          /\ MiterTest(style.miter_limit, calls[j].args[2], calls[j].args[3])
          /\ IsMiterQuad(calls[j].ops, calls[j].args[1],
                         flip(calls[j].args[3]), flip(calls[j].args[2]), style.width \div 2)
          /\ calls[k].call = "join_line"
          /\ ~MiterTest(style.miter_limit, calls[k].args[2], calls[k].args[3])
          /\ IsTriPiece(calls[k].ops)

\* C9: a Close processed with cur_pt and start_point both set makes, when
\* cur_pt differs from the start point, a join at cur_pt between last_normal
\* and the closing normal n, the offset quad of cur_pt -> start point, and a
\* join at the start point between n and the recorded start normal, in this
\* order; when cur_pt is the start point it makes the one join at the start
\* point between last_normal and the start normal, and no quad.  The output
\* grows by what these calls append, no cap is made, and start_point is
\* cleared, so no later op caps the subpath.
C9_CloseJoinsQuadJoins ==
    [][ (TakesOp /\ TakenOp = Close /\ IsSome(cur_pt) /\ IsSome(start_point)) =>
            LET cur == Unwrap(cur_pt)
                start == Unwrap(start_point)
                h == style.width \div 2
                new == NewCalls
            IN  /\ IF cur # start.point
                   THEN /\ Len(new) = 3
                        /\ new[2].call = "quad"
                        /\ IsUnitNormalOf(new[2].args[3], cur, start.point)
                        /\ new[2].args = << cur, start.point, new[2].args[3] >>
                        /\ new[2].ops = OffsetQuad(cur, start.point, new[2].args[3], h)
                        /\ CallsOf(new) =
                              << JoinCall(cur, last_normal, new[2].args[3]),
                                 QuadCall(cur, start.point, new[2].args[3]),
                                 JoinCall(start.point, new[2].args[3], start.normal) >>
                   ELSE CallsOf(new) = << JoinCall(start.point, last_normal, start.normal) >>
                /\ calls' = calls \o new
                /\ stroked_path'.ops = stroked_path.ops \o ConcatOps(new)
                /\ start_point' = None
      ]_vars

\* A subpath that returns to its start point and is then closed: the Close
\* made the single join at the start point, after the two segments and the
\* join between them.
C9_Witness ==
    /\ pc = "loop"
    /\ Len(path.ops) = 4
    /\ OpTags(path.ops) = << "MoveTo", "LineTo", "LineTo", "Close" >>
    /\ path.ops[3].pts = path.ops[1].pts
    /\ Len(calls) = 4
    /\ CallsOf(calls)[4] = JoinCall(path.ops[1].pts[1], calls[3].args[3], calls[1].args[3])
    /\ IsWedgePiece(calls[4].ops)

\* a is a prefix of b.
IsPrefix(a, b) == Len(a) <= Len(b) /\ SubSeq(b, 1, Len(a)) = a

\* C10: in every step of a pass the ops emitted so far stay, unchanged, at
\* the front of the output; the style, the winding of the input and the input
\* ops already taken are not modified; and the path returned is
\* stroke_to_path of the input path and style, a function of these two.
C10_OutputOnlyGrows ==
    [][ /\ IsPrefix(stroked_path.ops, stroked_path'.ops)
        /\ stroked_path'.winding = stroked_path.winding
        /\ style' = style
        /\ path'.winding = path.winding
        /\ IsPrefix(path.ops, path'.ops)
        /\ pc' = "done" => ret' = stroke_to_path(path', style')
        /\ pc' # "done" => ret' = None
      ]_vars

\* A path returned whose output grew at three of its four ops and at the end
\* of the input.
C10_Witness ==
    /\ pc = "done"
    /\ OpTags(path.ops) = << "MoveTo", "LineTo", "LineTo", "LineTo" >>
    /\ style.cap = "Round" /\ style.join = "Round"
    /\ Len(calls) = 7
    /\ \A k \in 1..7 : calls[k].ops # << >>
    /\ Unwrap(ret).ops = ConcatOps(calls)

\* m is a unit vector halfway between the unit vectors a and b, up to the
\* rounding of its coordinates.
Bisects(m, a, b) ==
    /\ Abs(m.x * m.x + m.y * m.y - Unit * Unit) <= 2 * Unit
    /\ Abs((m.x * a.x + m.y * a.y) - (m.x * b.x + m.y * b.y)) <= 2 * Unit
    /\ m.x * a.x + m.y * a.y >= 0

\* w is MoveTo(c + r*a), a CubicTo ending at c + r*bisect(a, b), a CubicTo
\* ending at c + r*b, LineTo(c), Close.
IsArcWedge(w, c, r, a, b) ==
    /\ IsWedgePiece(w)
    /\ Bisects(bisect(a, b), a, b)
    /\ w[1] = MoveTo(OffsetBy(c, a, r))
    /\ w[2].pts[3] = OffsetBy(c, bisect(a, b), r)
    /\ w[3].pts[3] = OffsetBy(c, b, r)
    /\ w[4] = LineTo(c)
    /\ w[5] = Close

\* C11: every arc wedge that is built (a Round cap from the normal n to
\* flip(n), a Round join between the normals of the vertex, as passed or
\* flipped and swapped) is exactly MoveTo(center + r*a), two CubicTo ops
\* ending at center + r*bisect(a, b) and at center + r*b, LineTo(center),
\* Close, r being half the width.
C11_ArcWedgeEndpoints ==
    \A k \in 1..Len(calls) :
        LET c == calls[k].args[1]
            r == style.width \div 2
        IN  /\ (calls[k].call = "cap_line" /\ style.cap = "Round") =>
                  IsArcWedge(calls[k].ops, c, r, calls[k].args[2], flip(calls[k].args[2]))
            /\ (calls[k].call = "join_line" /\ style.join = "Round") =>
                  \E ab \in NormalPairs(calls[k].args[2], calls[k].args[3]) :
                      IsArcWedge(calls[k].ops, c, r, ab[1], ab[2])

\* A Round join between a slanted and an axis-aligned segment, and a Round
\* cap, were both built.
C11_Witness ==
    /\ style.join = "Round" /\ style.cap = "Round"
    /\ \E j \in 1..Len(calls), k \in 1..Len(calls) :
          /\ calls[j].call = "join_line"
          /\ Abs(dot(calls[j].args[2], calls[j].args[3])) \in { 600, 800 }
          /\ IsWedgePiece(calls[j].ops)
          /\ calls[k].call = "cap_line"
          /\ IsWedgePiece(calls[k].ops)

\* C12: the builder is created with no ops and winding NonZero, it keeps
\* that winding through every step, and the path returned has winding
\* NonZero whatever the winding of the input path.
C12_OutputWindingNonZero ==
    /\ PathBuilder_new = [ops |-> << >>, winding |-> "NonZero"]
    /\ pc = "start" => stroked_path = PathBuilder_new
    /\ stroked_path.winding = "NonZero"
    /\ IsSome(ret) => Unwrap(ret).winding = "NonZero"

\* An EvenOdd input path with a stroked segment was returned as a NonZero
\* path.
C12_Witness ==
    /\ pc = "done"
    /\ path.winding = "EvenOdd"
    /\ Unwrap(ret).winding = "NonZero"
    /\ Unwrap(ret).ops # << >>

\* MoveTo, then k >= 1 LineTo ops, each to a point other than the one before.
IsOpenPolyline(ops) ==
    /\ Len(ops) >= 2
    /\ ops[1].op = "MoveTo"
    /\ \A k \in 2..Len(ops) : ops[k].op = "LineTo" /\ ops[k].pts # ops[k - 1].pts

\* quad, join, quad, ..., join, quad for k segments, then the two caps.
PolylineCallKinds(k) ==
    [i \in 1..(2 * k + 1) |->
        IF i > 2 * k - 1 THEN "cap_line"
        ELSE IF i % 2 = 1 THEN "quad" ELSE "join_line"]

\* C13: a LineTo(p) taken while cur_pt is set and differs from p makes one
\* quad call for cur_pt -> p with the segment's unit normal n, appending the
\* offset quad; before it, one join at cur_pt between last_normal and n if
\* start_point is set, and no join but start_point' = (cur_pt, n) if it is
\* not; then last_normal' = n and cur_pt' = p.  So at the end of an open
\* polyline of k non-degenerate segments with Bevel join the calls are quad,
\* join, ..., join, quad (k quads, k - 1 bevel triangles), then two caps.
C13_LineToJoinThenQuad ==
    [][ /\ (TakesOp /\ TakenOp.op = "LineTo" /\ IsSome(cur_pt)
                /\ cur_pt # Some(TakenOp.pts[1])) =>
              LET cur == Unwrap(cur_pt)
                  p == TakenOp.pts[1]
                  n == last_normal'
                  h == style.width \div 2
                  new == NewCalls
              IN  /\ IsUnitNormalOf(n, cur, p)
                  /\ cur_pt' = Some(p)
                  /\ IF start_point = None
                     THEN /\ start_point' = Some(StartPoint(cur, n))
                          /\ CallsOf(new) = << QuadCall(cur, p, n) >>
                     ELSE /\ start_point' = start_point
                          /\ CallsOf(new) = << JoinCall(cur, last_normal, n), QuadCall(cur, p, n) >>
                  /\ new[Len(new)].ops = OffsetQuad(cur, p, n, h)
                  /\ calls' = calls \o new
                  /\ stroked_path'.ops = stroked_path.ops \o ConcatOps(new)
        /\ (EndsInput /\ IsOpenPolyline(path.ops) /\ style.join = "Bevel") =>
              LET k == Len(path.ops) - 1
              IN  /\ [i \in 1..Len(calls') |-> calls'[i].call] = PolylineCallKinds(k)
                  /\ \A i \in 1..(2 * k - 1) :
                        IF i % 2 = 1 THEN IsQuadPiece(calls'[i].ops)
                        ELSE IsTriPiece(calls'[i].ops)
                  /\ Unwrap(ret').ops = ConcatOps(calls')
      ]_vars

\* An open polyline of three segments returned under a Bevel join: three
\* quads, two bevel triangles between them, two caps.
C13_Witness ==
    /\ pc = "done"
    /\ Len(path.ops) = 4 /\ IsOpenPolyline(path.ops)
    /\ style.join = "Bevel" /\ style.cap = "Square"
    /\ [i \in 1..Len(calls) |-> calls[i].call] = PolylineCallKinds(3)
    /\ IsTriPiece(calls[2].ops) /\ IsTriPiece(calls[4].ops)

\* C14: a LineTo(p) taken while cur_pt is unset makes no builder call and
\* appends nothing, leaves start_point unset and last_normal as it is, and
\* makes p the current point; the LineTo(q), q # p, that follows it strokes
\* p -> q as the first segment of a subpath: one offset quad, no join, and
\* start_point = (p, n).
C14_LineToWithoutPointIsMove ==
    [][ /\ pc = "loop" => Track(path.ops).cur = cur_pt
        /\ (TakesOp /\ TakenOp.op = "LineTo" /\ cur_pt = None) =>
              /\ stroked_path' = stroked_path
              /\ calls' = calls
              /\ start_point = None /\ start_point' = None
              /\ last_normal' = last_normal
              /\ cur_pt' = Some(TakenOp.pts[1])
              /\ pc' = "loop"
        /\ (/\ TakesOp /\ TakenOp.op = "LineTo"
            /\ Len(path.ops) >= 1
            /\ path.ops[Len(path.ops)].op = "LineTo"
            /\ Track(SubSeq(path.ops, 1, Len(path.ops) - 1)).cur = None
            /\ TakenOp.pts # path.ops[Len(path.ops)].pts) =>
              LET p == path.ops[Len(path.ops)].pts[1]
                  q == TakenOp.pts[1]
                  n == last_normal'
                  new == NewCalls
              IN  /\ IsUnitNormalOf(n, p, q)
                  /\ CallsOf(new) = << QuadCall(p, q, n) >>
                  /\ new[1].ops = OffsetQuad(p, q, n, style.width \div 2)
                  /\ stroked_path'.ops = stroked_path.ops \o new[1].ops
                  /\ start_point' = Some(StartPoint(p, n))
                  /\ cur_pt' = Some(q)
      ]_vars

\* After a Close that left no current point, a LineTo acted as a move and
\* the LineTo after it stroked the one segment of the output.
C14_Witness ==
    /\ pc = "loop"
    /\ OpTags(path.ops) = << "MoveTo", "Close", "LineTo", "LineTo" >>
    /\ Len(calls) = 1
    /\ calls[1].call = "quad"
    /\ << calls[1].args[1], calls[1].args[2] >> = << path.ops[3].pts[1], path.ops[4].pts[1] >>
    /\ stroked_path.ops = calls[1].ops
    /\ IsQuadPiece(calls[1].ops)

\* The offset lines with the normals n1 and n2 are parallel.
ParallelLines(n1, n2) == n1.x * n2.y - n1.y * n2.x = 0

\* C15: under a Miter join, a join_line call that passes the miter-limit
\* test at a vertex whose offset lines are parallel (line_intersection gives
\* None) appends no op; the step does not fail, and the call made after the
\* join in the same step is the next segment's quad, which is appended.
C15_ParallelMiterJoinEmitsNothing ==
    [][ TakesOp =>
          LET new == NewCalls
              h == style.width \div 2
          IN  \A k \in 1..Len(new) :
                (/\ new[k].call = "join_line"
                 /\ style.join = "Miter"
                 /\ MiterTest(style.miter_limit, new[k].args[2], new[k].args[3])
                 /\ ParallelLines(new[k].args[2], new[k].args[3])) =>
                    /\ line_intersection(OffsetBy(new[k].args[1], flip(new[k].args[3]), h),
                                         flip(new[k].args[3]),
                                         OffsetBy(new[k].args[1], flip(new[k].args[2]), h),
                                         flip(new[k].args[2])) = None
                    /\ new[k].ops = << >>
                    /\ pc' = "loop"
                    /\ TakenOp.op = "LineTo" => k < Len(new)
                    /\ k < Len(new) =>
                          /\ new[k + 1].call = "quad"
                          /\ new[k + 1].args[1] = new[k].args[1]
                          /\ IsQuadPiece(new[k + 1].ops)
                    /\ stroked_path'.ops = stroked_path.ops \o ConcatOps(new)
      ]_vars

\* Two collinear segments in the same direction under a Miter join: the
\* join between them appended nothing and the second quad followed.
C15_Witness ==
    /\ style.join = "Miter"
    /\ OpTags(path.ops) = << "MoveTo", "LineTo", "LineTo" >>
    /\ [i \in 1..Len(calls) |-> calls[i].call] = << "quad", "join_line", "quad" >>
    /\ calls[2].args[2] = calls[2].args[3]
    /\ calls[2].ops = << >>
    /\ IsQuadPiece(calls[3].ops)
    /\ Len(stroked_path.ops) = 10

\* The most recent segment of non-zero length of the current subpath, as
\* Some(<< p, q >>): the segment of the last LineTo, after the last MoveTo or
\* Close, that was taken at a current point other than its target.
RECURSIVE LastSegment(_)
LastSegment(ops) ==
    IF ops = << >> THEN None
    ELSE LET before == SubSeq(ops, 1, Len(ops) - 1)
             o == ops[Len(ops)]
         IN  CASE o.op \in {"MoveTo", "Close"} -> None
               [] o.op = "LineTo" ->
                     IF IsSome(Track(before).cur) /\ Track(before).cur # Some(o.pts[1])
                     THEN Some(<< Unwrap(Track(before).cur), o.pts[1] >>)
                     ELSE LastSegment(before)
               [] OTHER -> LastSegment(before)

IsUnit(n) == n.x * n.x + n.y * n.y = Unit * Unit

\* C16: in every state of the loop, start_point is set exactly when the
\* current subpath has a segment of non-zero length; then cur_pt is set (the
\* end of the most recent such segment) and last_normal is that segment's
\* unit normal.  Every join and cap made in a step is made while start_point
\* is set, every normal it is given has length one, and a join or cap at
\* cur_pt is given last_normal.
C16_LastNormalOfCurrentSubpath ==
    [][ pc = "loop" =>
          /\ IsSome(start_point) <=> IsSome(LastSegment(path.ops))
          /\ IsSome(start_point) =>
                LET seg == Unwrap(LastSegment(path.ops))
                IN  /\ cur_pt = Some(seg[2])
                    /\ last_normal # VZero
                    /\ IsUnitNormalOf(last_normal, seg[1], seg[2])
                    /\ Some(last_normal) = compute_normal(seg[1], seg[2])
                    /\ IsUnit(Unwrap(start_point).normal)
          /\ \A k \in 1..Len(NewCalls) :
                LET c == NewCalls[k]
                IN  c.call \in {"join_line", "cap_line"} =>
                      /\ IsSome(start_point) /\ IsSome(cur_pt)
                      /\ \A i \in 2..Len(c.args) : IsUnit(c.args[i])
                      /\ (k = 1 /\ c.args[1] = Unwrap(cur_pt)) => c.args[2] = last_normal
      ]_vars

\* Second subpath of a path: its first segment is stroked and last_normal
\* is the normal of that segment, not the one of the subpath before.
C16_Witness ==
    /\ pc = "loop"
    /\ OpTags(path.ops) = << "LineTo", "LineTo", "MoveTo", "LineTo" >>
    /\ IsSome(start_point)
    /\ Len(calls) = 4
    /\ last_normal = calls[4].args[3]
    /\ last_normal # calls[1].args[3]
    /\ last_normal # flip(calls[1].args[3])

\* ops is a concatenation of pieces MoveTo, (LineTo | CubicTo)*, Close.
IsClosedPieces(ops) ==
    /\ ops # << >> => ops[1].op = "MoveTo" /\ ops[Len(ops)].op = "Close"
    /\ \A k \in 1..Len(ops) :
          /\ ops[k].op \in {"MoveTo", "LineTo", "CubicTo", "Close"}
          /\ (k > 1 /\ ops[k].op = "MoveTo") => ops[k - 1].op = "Close"
          /\ (k > 1 /\ ops[k].op # "MoveTo") => ops[k - 1].op # "Close"

\* C17: the output built so far, and the path returned, is a concatenation
\* of closed pieces (MoveTo, then LineTo or CubicTo ops, then Close); it has
\* no QuadTo, and a CubicTo only if the cap or the join is Round; so under
\* a cap and join other than Round the path returned is not one on which
\* stroke_to_path panics.
C17_OutputIsClosedPieces ==
    /\ IsClosedPieces(stroked_path.ops)
    /\ (\E k \in 1..Len(stroked_path.ops) : stroked_path.ops[k].op = "CubicTo") =>
          (style.cap = "Round" \/ style.join = "Round")
    /\ IsSome(ret) =>
          /\ Unwrap(ret) = stroked_path
          /\ (style.cap # "Round" /\ style.join # "Round") => ~panics(Unwrap(ret), style)

\* A path returned under a Miter join and Square caps with a bevel
\* triangle among its pieces: a flat path.
C17_Witness ==
    /\ pc = "done"
    /\ style.join = "Miter" /\ style.cap = "Square"
    /\ \E k \in 1..Len(calls) : calls[k].call = "join_line" /\ IsTriPiece(calls[k].ops)
    /\ \E k \in 1..Len(calls) : calls[k].call = "join_line" /\ IsQuadPiece(calls[k].ops)
    /\ Len(Unwrap(ret).ops) >= 30
    /\ ~panics(Unwrap(ret), style)

\* ops is made of subpaths without a segment of non-zero length only: each
\* a MoveTo(p), then LineTo(p) ops, then possibly a Close.
IsZeroLengthSubpaths(ops) ==
    /\ ops # << >>
    /\ ops[1].op = "MoveTo"
    /\ \A k \in 2..Len(ops) :
          CASE ops[k].op = "MoveTo" -> TRUE
            [] ops[k].op = "LineTo" ->
                  ops[k - 1].op \in {"MoveTo", "LineTo"} /\ ops[k].pts = ops[k - 1].pts
            [] ops[k].op = "Close" -> ops[k - 1].op \in {"MoveTo", "LineTo"}
            [] OTHER -> FALSE

\* C18: while the current subpath has no segment of non-zero length, a
\* MoveTo, a Close, a LineTo to the current point and the end of the input
\* make no builder call and append nothing, whatever the cap and the join;
\* and a path made of such subpaths only is returned as the empty path.
C18_ZeroLengthSubpathDrawsNothing ==
    [][ /\ (/\ pc = "loop"
            /\ LastSegment(path.ops) = None
            /\ \/ EndsInput
               \/ TakesOp /\ TakenOp.op \in {"MoveTo", "Close"}
               \/ TakesOp /\ TakenOp.op = "LineTo" /\ cur_pt = Some(TakenOp.pts[1])) =>
              /\ calls' = calls
              /\ stroked_path' = stroked_path
              /\ start_point = None /\ start_point' = None
        /\ (EndsInput /\ IsZeroLengthSubpaths(path.ops)) =>
              /\ calls' = << >>
              /\ Unwrap(ret').ops = << >>
      ]_vars

\* MoveTo(p), LineTo(p), LineTo(p), Close under Round caps and joins was
\* returned as the empty path.
C18_Witness ==
    /\ pc = "done"
    /\ OpTags(path.ops) = << "MoveTo", "LineTo", "LineTo", "Close" >>
    /\ IsZeroLengthSubpaths(path.ops)
    /\ style.cap = "Round" /\ style.join = "Round"
    /\ IsSome(ret) /\ Unwrap(ret).ops = << >>

====
